---------------------------- MODULE Spec2Model ----------------------------
(***************************************************************************)
(* A model of the document index of bit-buddy: app/rag.py (the chunker,    *)
(* the content extractor, RAG.build_index, RAG.retrieve and the loader of  *)
(* the persisted index) as it is driven by app/server.py (/reindex on a    *)
(* two-worker executor, /chat on request threads).                         *)
(*                                                                         *)
(* Text is a sequence of characters over Chars; an embedding is a small    *)
(* integer vector, L2-normalisation is reduction to the direction of the   *)
(* vector.  A file of the knowledge base is absent, unreadable or holds a  *)
(* text.  The persisted files are absent, corrupt (a partial write) or     *)
(* hold the rows written last.                                             *)
(***************************************************************************)
EXTENDS Integers, Sequences, FiniteSets, TLC

VARIABLES
    \* ---- chunk_text, run one loop iteration at a time
    ck_text, ck_cc, ck_ov,      \* the arguments text, chunk_chars, overlap
    ck_i, ck_chunks,            \* the locals i and chunks
    ck_pc,                      \* "while" | "return" | "done"
    ck_out,                     \* the returned list
    \* ---- the process that owns one RAG instance
    cfg,                        \* [chunk_chars, chunk_overlap] of config.yaml
    fs,                         \* kb_dir: path -> state of the file
    fs_changes,                 \* how often the tree was changed so far
    up,                         \* the process runs and RAG(cfg) is built
    emb_file, meta_file,        \* embeddings.npy and meta.jsonl on disk
    _emb, _meta,                \* RAG._emb and RAG._meta
    \* ---- build_index, one call per executor worker
    b_pc, b_snap, b_meta, b_chunks, b_E, b_ret,
    \* ---- retrieve, on a request thread
    r_pc, r_q, r_k, r_n, r_idxs, r_res,
    \* ---- FileSystemRAG: one instance, its watcher and a scan thread
    w_db,                       \* where db_path lies
    w_vec,                      \* vector_enabled
    w_fs,                       \* watch_dir: path -> state of the file
    w_clock,                    \* the time of the last write under watch_dir
    w_events,                   \* the events the observer has not yet dispatched
    w_table,                    \* the rows of the table files, by path
    w_coll,                     \* the documents of the collection, by id
    w_todo,                     \* the paths a running scan has yet to visit
    w_wjob, w_sjob,             \* the index_file call of the observer thread, of the scan
    \* ---- the HTTP server (app/server.py)
    s_rag,                      \* the global rag: 0 (None) or the instance
    rag_init_error,             \* the global rag_init_error ("none" is None)
    s_ok,                       \* RAG(cfg) would succeed now
    s_made,                     \* the RAG instances constructed so far
    s_inst,                     \* instance -> the index it has loaded
    s_disk,                     \* the index in the index directory
    s_kind, s_pc,               \* request thread -> its endpoint, its position
    s_loc,                      \* request thread -> the instance it holds
    s_resp                      \* request thread -> the body it returned

ckvars  == <<ck_text, ck_cc, ck_ov, ck_i, ck_chunks, ck_pc, ck_out>>
envvars == <<cfg, fs, fs_changes>>
idxvars == <<up, emb_file, meta_file, _emb, _meta>>
bvars   == <<b_pc, b_snap, b_meta, b_chunks, b_E, b_ret>>
rvars   == <<r_pc, r_q, r_k, r_n, r_idxs, r_res>>
wvars   == <<w_db, w_vec, w_fs, w_clock, w_events, w_table, w_coll, w_todo,
             w_wjob, w_sjob>>
svars   == <<s_rag, rag_init_error, s_ok, s_made, s_inst, s_disk, s_kind, s_pc,
             s_loc, s_resp>>
vars    == <<ckvars, envvars, idxvars, bvars, rvars, wvars, svars>>

---------------------------------------------------------------------------
(* Bounds of the model *)

\* longest text of a file or of a chunk_text argument
MaxLen == 2
\* largest chunk_chars
MaxChunkChars == 2
\* largest overlap
MaxOverlap == 1
\* most loop iterations of chunk_text the stepwise run follows
MaxIter == 4
\* most changes of the file tree in one behaviour
MaxFsChanges == 2
\* largest k passed to retrieve (the smallest is 0)
MaxK == 2
\* the writes, touches and deletions under watch_dir
MaxWrites == 2
\* most interactions recorded on one row
MaxAccess == 1
\* the limit of search
MaxLimit == 2
\* the RAG instances the server constructs
MaxInst == 2
\* the builds /reindex runs
MaxBuilds == 2

---------------------------------------------------------------------------
(* Text *)

Chars == {"x", "y", " "}

Texts(n) == UNION {[1..k -> Chars] : k \in 0..n}

\* what str.strip() removes
Space == {" ", "\n"}

Min(a, b) == IF a < b THEN a ELSE b
Max(a, b) == IF a > b THEN a ELSE b

\* text[i:j] of Python for 0 <= i <= j <= len(text)
Slice(text, i, j) == SubSeq(text, i + 1, j)

RECURSIVE LStrip(_)
LStrip(s) ==
    IF s = <<>> THEN s
    ELSE IF Head(s) \in Space THEN LStrip(Tail(s)) ELSE s

RECURSIVE RStrip(_)
RStrip(s) ==
    IF s = <<>> THEN s
    ELSE IF s[Len(s)] \in Space THEN RStrip(SubSeq(s, 1, Len(s) - 1)) ELSE s

\* str.strip()
Strip(s) == RStrip(LStrip(s))

\* [c for c in chunks if c]
NonEmpty(chunks) == SelectSeq(chunks, LAMBDA c : c # <<>>)

---------------------------------------------------------------------------
(* chunk_text *)

\* One pass through the body of the while loop, from a window start i < n:
\* the window appended and the next start.
ChunkBody(text, cc, ov, i, chunks) ==
    LET n == Len(text)
        j == Min(i + cc, n)
    IN  [chunks |-> Append(chunks, Strip(Slice(text, i, j))),
         i      |-> Max(j - ov, 0)]

\* The loop run to its end.  The next start is a function of the start alone,
\* so a run that ends visits each start in 0..n-1 at most once and ends within
\* n iterations; one that is still looping after n iterations never ends.
RECURSIVE ChunkLoop(_, _, _, _, _, _)
ChunkLoop(text, cc, ov, i, chunks, fuel) ==
    IF i >= Len(text) THEN [halts |-> TRUE, chunks |-> NonEmpty(chunks)]
    ELSE IF fuel = 0 THEN [halts |-> FALSE, chunks |-> <<>>]
    ELSE LET b == ChunkBody(text, cc, ov, i, chunks)
         IN  ChunkLoop(text, cc, ov, b.i, b.chunks, fuel - 1)

\* chunk_text(text, chunk_chars, overlap): whether the call returns, and what
chunk_text(text, cc, ov) == ChunkLoop(text, cc, ov, 0, <<>>, Len(text))

(* chunk_text, one step at a time *)

ChunkInit ==
    /\ ck_text \in Texts(MaxLen)
    /\ ck_cc \in 1..MaxChunkChars
    /\ ck_ov \in 0..MaxOverlap
    /\ ck_i = 0
    /\ ck_chunks = <<>>
    /\ ck_pc = "while"
    /\ ck_out = <<>>

ChunkIdle ==
    /\ ck_text = <<>> /\ ck_cc = 1 /\ ck_ov = 0 /\ ck_i = 0
    /\ ck_chunks = <<>> /\ ck_pc = "done" /\ ck_out = <<>>

\* while i < n: ... ; if i >= n: break
ChunkIterate ==
    /\ ck_pc = "while"
    /\ ck_i < Len(ck_text)
    /\ Len(ck_chunks) < MaxIter
    /\ LET b == ChunkBody(ck_text, ck_cc, ck_ov, ck_i, ck_chunks)
       IN  /\ ck_chunks' = b.chunks
           /\ ck_i' = b.i
           /\ ck_pc' = IF b.i >= Len(ck_text) THEN "return" ELSE "while"
    /\ UNCHANGED <<ck_text, ck_cc, ck_ov, ck_out>>
    /\ UNCHANGED <<envvars, idxvars, bvars, rvars, wvars, svars>>

\* the while test fails on entry (empty text)
ChunkExit ==
    /\ ck_pc = "while"
    /\ ck_i >= Len(ck_text)
    /\ ck_pc' = "return"
    /\ UNCHANGED <<ck_text, ck_cc, ck_ov, ck_i, ck_chunks, ck_out>>
    /\ UNCHANGED <<envvars, idxvars, bvars, rvars, wvars, svars>>

\* return [c for c in chunks if c]
ChunkReturn ==
    /\ ck_pc = "return"
    /\ ck_out' = NonEmpty(ck_chunks)
    /\ ck_pc' = "done"
    /\ UNCHANGED <<ck_text, ck_cc, ck_ov, ck_i, ck_chunks>>
    /\ UNCHANGED <<envvars, idxvars, bvars, rvars, wvars, svars>>

---------------------------------------------------------------------------
(* The knowledge base and extract_text *)

\* The files of kb_dir, in the order build_index globs them: *.pdf, *.docx,
\* *.txt, *.md.
Paths == <<"a.pdf", "b.txt">>

PathSet == {Paths[i] : i \in 1..Len(Paths)}

\* the extension extract_text dispatches on
Kind(p) ==
    CASE p = "a.pdf" -> "pdf"
      [] p = "b.txt" -> "txt"
      [] OTHER -> "other"

\* A file: absent, present but unreadable (no permission, a directory of that
\* name, damaged content), or present with its text.
AbsentFile == [st |-> "absent", text |-> <<>>]
BadFile    == [st |-> "bad", text |-> <<>>]

\* the texts files hold: empty, blank, one letter, a leading blank, two letters
Corpus == {<<>>, <<" ">>, <<"x">>, <<" ", "x">>, <<"x", "y">>}

FileStates ==
    {AbsentFile, BadFile} \cup {[st |-> "ok", text |-> t] : t \in Corpus}

\* read_text_file: open() is outside every try, decoding ignores errors
read_text_file(f) ==
    IF f.st = "ok" THEN [raises |-> FALSE, text |-> f.text]
    ELSE [raises |-> TRUE, text |-> <<>>]

\* MarkdownIt().render of a one-paragraph text: the paragraph wrapped in
\* <p>, </p> and a newline; nothing for blank text
MdRender(t) ==
    IF Strip(t) = <<>> THEN <<>>
    ELSE <<"<p>">> \o Strip(t) \o <<"</p>", "\n">>

\* extract_text(path): whether it raises, and the text it returns
extract_text(kind, f) ==
    CASE kind \in {"pdf", "docx"} ->
            \* try: parse ... except Exception: return ""
            [raises |-> FALSE, text |-> IF f.st = "ok" THEN f.text ELSE <<>>]
      [] kind = "md" ->
            LET r == read_text_file(f)
            IN  [raises |-> r.raises, text |-> MdRender(r.text)]
      [] kind = "txt" -> read_text_file(f)
      [] OTHER -> [raises |-> FALSE, text |-> <<>>]

\* glob.glob(kb_dir/**/ext) for the four extensions: what exists, in order
GlobFiles(tree) == SelectSeq(Paths, LAMBDA p : tree[p].st # "absent")

---------------------------------------------------------------------------
(* The embedding client and the index *)

Count(s, c) == Len(SelectSeq(s, LAMBDA e : e = c))

\* TextEmbedding.embed of one string: a bag-of-characters vector
Embed(ch) == <<Count(ch, "x"), Count(ch, "y")>>

RECURSIVE Gcd(_, _)
Gcd(a, b) == IF b = 0 THEN a ELSE Gcd(b, a % b)

\* v / (norm(v) + 1e-12): the direction of v, the zero vector unchanged
Normalize(v) ==
    LET g == Gcd(v[1], v[2])
    IN  IF g = 0 THEN v ELSE <<v[1] \div g, v[2] \div g>>

NormalizeRows(rows) == [i \in 1..Len(rows) |-> Normalize(rows[i])]

\* An optional value of Python (None or a list / an array)
NoneVal == [some |-> FALSE, rows |-> <<>>]
Some(rows) == [some |-> TRUE, rows |-> rows]

\* A persisted file: absent, corrupt (cut short by a crash) or complete
NoFile == [st |-> "absent", rows |-> <<>>]
CorruptFile == [st |-> "corrupt", rows |-> <<>>]
File(rows) == [st |-> "ok", rows |-> rows]

\* RAG._load_index_if_exists, from the attributes __init__ sets to None
LoadIndex(ef, mf) ==
    IF ef.st # "absent" /\ mf.st # "absent"
    THEN IF ef.st = "corrupt" \/ mf.st = "corrupt"
         THEN \* np.load or json.loads raises: except Exception
              [emb |-> NoneVal, meta |-> NoneVal]
         ELSE [emb |-> Some(NormalizeRows(ef.rows)), meta |-> Some(mf.rows)]
    ELSE [emb |-> NoneVal, meta |-> NoneVal]

---------------------------------------------------------------------------
(* RAG.build_index *)

Builders == {1, 2}

\* PartsMeta with the ordinals counted from 1
PartsMeta_OneBased(p, parts) ==
    [i \in 1..Len(parts) |->
        [path |-> p, chunk_id |-> i, chars |-> Len(parts[i])]]

\* the metadata entries of one file's parts (enumerate(parts))
PartsMeta(p, parts) ==
    [i \in 1..Len(parts) |->
        [path |-> p, chunk_id |-> i - 1, chars |-> Len(parts[i])]]

\* for fp in files: extract, skip empty text, chunk, append.  The outcome is
\* "ok" with the lists meta and chunks, "raise" when extract_text raises, or
\* "hang" when chunk_text never returns.
RECURSIVE ScanFiles(_, _, _, _, _)
ScanFiles(files, tree, c, meta, chunks) ==
    IF files = <<>> THEN [out |-> "ok", meta |-> meta, chunks |-> chunks]
    ELSE LET fp == Head(files)
             x  == extract_text(Kind(fp), tree[fp])
             ct == chunk_text(x.text, c.chunk_chars, c.chunk_overlap)
         IN  IF x.raises THEN [out |-> "raise", meta |-> <<>>, chunks |-> <<>>]
             ELSE IF x.text = <<>> THEN ScanFiles(Tail(files), tree, c, meta, chunks)
             ELSE IF ~ct.halts THEN [out |-> "hang", meta |-> <<>>, chunks |-> <<>>]
             ELSE ScanFiles(Tail(files), tree, c,
                            meta \o PartsMeta(fp, ct.chunks), chunks \o ct.chunks)

\* lines 108-129 of build_index on the tree as it is
Scan(tree, c) == ScanFiles(GlobFiles(tree), tree, c, <<>>, <<>>)

\* lines 140-146: one vector per chunk, in order, each normalised
EmbedAll(chunks) == [i \in 1..Len(chunks) |-> Normalize(Embed(chunks[i]))]

\* what line 149 leaves in embeddings.npy
SavedEmb(E) == File(E)

\* SavedMeta with the file opened for appending
SavedMeta_Append(meta) == File(meta_file.rows \o meta)

\* what lines 150-152 leave in meta.jsonl
SavedMeta(meta) == File(meta)

\* the tree a call has read, before it has read one
NoSnap == [p \in PathSet |-> AbsentFile]

\* the locals of a call are gone when it returns or raises
DropLocals(t) ==
    /\ b_snap' = [b_snap EXCEPT ![t] = NoSnap]
    /\ b_meta' = [b_meta EXCEPT ![t] = <<>>]
    /\ b_chunks' = [b_chunks EXCEPT ![t] = <<>>]
    /\ b_E' = [b_E EXCEPT ![t] = <<>>]

\* a call may start on a worker that is idle or has finished a call
Callable(pc) == pc \in {"idle", "done", "raised_extract", "raised_embed"}

\* lines 108-131: enumerate, extract and chunk the files
BuildScan(t) ==
    /\ up
    /\ Callable(b_pc[t])
    /\ LET s == Scan(fs, cfg)
       IN  /\ b_snap' = [b_snap EXCEPT ![t] = IF s.out = "ok" THEN fs ELSE NoSnap]
           /\ b_meta' = [b_meta EXCEPT ![t] = s.meta]
           /\ b_chunks' = [b_chunks EXCEPT ![t] = s.chunks]
           /\ b_pc' = [b_pc EXCEPT ![t] =
                  CASE s.out = "raise" -> "raised_extract"
                    [] s.out = "hang" -> "hung"
                    [] s.chunks = <<>> -> "z_emb"
                    [] OTHER -> "embed"]
    /\ b_E' = [b_E EXCEPT ![t] = <<>>]
    /\ b_ret' = [b_ret EXCEPT ![t] = 0]
    /\ UNCHANGED <<ckvars, wvars, svars, envvars, idxvars, rvars>>

\* line 133: self._emb = np.zeros((0, dim))
BuildEmptyEmb(t) ==
    /\ b_pc[t] = "z_emb"
    /\ _emb' = Some(<<>>)
    /\ b_pc' = [b_pc EXCEPT ![t] = "z_meta"]
    /\ UNCHANGED <<ckvars, wvars, svars, envvars, up, emb_file, meta_file, _meta,
                   b_snap, b_meta, b_chunks, b_E, b_ret, rvars>>

\* line 134: self._meta = []
BuildEmptyMeta(t) ==
    /\ b_pc[t] = "z_meta"
    /\ _meta' = Some(<<>>)
    /\ b_pc' = [b_pc EXCEPT ![t] = "z_save"]
    /\ UNCHANGED <<ckvars, wvars, svars, envvars, up, emb_file, meta_file, _emb,
                   b_snap, b_meta, b_chunks, b_E, b_ret, rvars>>

\* line 135: np.save(self.emb_path, self._emb), the attribute as it is now
BuildEmptySave(t) ==
    /\ b_pc[t] = "z_save"
    /\ emb_file' = SavedEmb(_emb.rows)
    /\ b_pc' = [b_pc EXCEPT ![t] = "z_trunc"]
    /\ UNCHANGED <<ckvars, wvars, svars, envvars, up, meta_file, _emb, _meta,
                   b_snap, b_meta, b_chunks, b_E, b_ret, rvars>>

\* BuildEmptyTrunc leaving meta.jsonl as it is
BuildEmptyTrunc_NoTruncate(t) ==
    /\ b_pc[t] = "z_trunc"
    /\ b_ret' = [b_ret EXCEPT ![t] = 0]
    /\ b_pc' = [b_pc EXCEPT ![t] = "done"]
    /\ DropLocals(t)
    /\ UNCHANGED <<ckvars, wvars, svars, envvars, idxvars, rvars>>

\* lines 136-137: truncate meta.jsonl; return 0
BuildEmptyTrunc(t) ==
    /\ b_pc[t] = "z_trunc"
    /\ meta_file' = File(<<>>)
    /\ b_ret' = [b_ret EXCEPT ![t] = 0]
    /\ b_pc' = [b_pc EXCEPT ![t] = "done"]
    /\ DropLocals(t)
    /\ UNCHANGED <<ckvars, wvars, svars, envvars, up, emb_file, _emb, _meta, rvars>>

\* lines 140-146: the embedding client answers every batch
BuildEmbed(t) ==
    /\ b_pc[t] = "embed"
    /\ b_E' = [b_E EXCEPT ![t] = EmbedAll(b_chunks[t])]
    /\ b_pc' = [b_pc EXCEPT ![t] = "save_emb"]
    /\ UNCHANGED <<ckvars, wvars, svars, envvars, idxvars, b_snap, b_meta, b_chunks, b_ret, rvars>>

\* BuildEmbedFail saving the vectors of the batches that did succeed
BuildEmbedFail_PartialCommit(t) ==
    /\ b_pc[t] = "embed"
    /\ b_pc' = [b_pc EXCEPT ![t] = "raised_embed"]
    /\ emb_file' =
          SavedEmb(EmbedAll(SubSeq(b_chunks[t], 1, Len(b_chunks[t]) - 1)))
    /\ DropLocals(t)
    /\ UNCHANGED <<ckvars, wvars, svars, envvars, up, meta_file, _emb, _meta, b_ret, rvars>>

\* lines 140-142: the embedding client fails on a batch; the exception leaves
\* build_index
BuildEmbedFail(t) ==
    /\ b_pc[t] = "embed"
    /\ b_pc' = [b_pc EXCEPT ![t] = "raised_embed"]
    /\ DropLocals(t)
    /\ UNCHANGED <<ckvars, wvars, svars, envvars, idxvars, b_ret, rvars>>

\* line 149: np.save(self.emb_path, E)
BuildSaveEmb(t) ==
    /\ b_pc[t] = "save_emb"
    /\ emb_file' = SavedEmb(b_E[t])
    /\ b_pc' = [b_pc EXCEPT ![t] = "write_meta"]
    /\ UNCHANGED <<ckvars, wvars, svars, envvars, up, meta_file, _emb, _meta,
                   b_snap, b_meta, b_chunks, b_E, b_ret, rvars>>

\* lines 150-152: meta.jsonl rewritten
BuildWriteMeta(t) ==
    /\ b_pc[t] = "write_meta"
    /\ meta_file' = SavedMeta(b_meta[t])
    /\ b_pc' = [b_pc EXCEPT ![t] = "set_emb"]
    /\ UNCHANGED <<ckvars, wvars, svars, envvars, up, emb_file, _emb, _meta,
                   b_snap, b_meta, b_chunks, b_E, b_ret, rvars>>

\* line 154: self._emb = E
BuildSetEmb(t) ==
    /\ b_pc[t] = "set_emb"
    /\ _emb' = Some(b_E[t])
    /\ b_pc' = [b_pc EXCEPT ![t] = "set_meta"]
    /\ UNCHANGED <<ckvars, wvars, svars, envvars, up, emb_file, meta_file, _meta,
                   b_snap, b_meta, b_chunks, b_E, b_ret, rvars>>

\* BuildSetMeta keeping the old entries of the files it did not find
BuildSetMeta_KeepOld(t) ==
    /\ b_pc[t] = "set_meta"
    /\ _meta' = Some(SelectSeq(_meta.rows,
                        LAMBDA m : b_snap[t][m.path].st = "absent") \o b_meta[t])
    /\ b_ret' = [b_ret EXCEPT ![t] = Len(b_meta[t])]
    /\ b_pc' = [b_pc EXCEPT ![t] = "done"]
    /\ DropLocals(t)
    /\ UNCHANGED <<ckvars, wvars, svars, envvars, up, emb_file, meta_file, _emb, rvars>>

\* lines 155-156: self._meta = meta; return len(meta)
BuildSetMeta(t) ==
    /\ b_pc[t] = "set_meta"
    /\ _meta' = Some(b_meta[t])
    /\ b_ret' = [b_ret EXCEPT ![t] = Len(b_meta[t])]
    /\ b_pc' = [b_pc EXCEPT ![t] = "done"]
    /\ DropLocals(t)
    /\ UNCHANGED <<ckvars, wvars, svars, envvars, up, emb_file, meta_file, _emb, rvars>>

\* one step of the build_index call of worker t
build_index(t) ==
    \/ BuildScan(t)
    \/ BuildEmptyEmb(t) \/ BuildEmptyMeta(t) \/ BuildEmptySave(t) \/ BuildEmptyTrunc(t)
    \/ BuildEmbed(t) \/ BuildEmbedFail(t)
    \/ BuildSaveEmb(t) \/ BuildWriteMeta(t)
    \/ BuildSetEmb(t) \/ BuildSetMeta(t)

---------------------------------------------------------------------------
(* RAG.retrieve *)

Queries == {<<"x">>, <<"y">>}

Dot(a, b) == a[1] * b[1] + a[2] * b[2]

\* The cosine of a row and the query vector as a fraction num / den with the
\* common factor |qv|^2 left out; the zero row scores 0.
SimNum(row, qv) == Dot(row, qv) * Dot(row, qv)
SimDen(row) == IF Dot(row, row) = 0 THEN 1 ELSE Dot(row, row)

\* sims[i] > sims[j] (0-based rows of the matrix)
SimGt(rows, qv, i, j) ==
    SimNum(rows[i + 1], qv) * SimDen(rows[j + 1])
        > SimNum(rows[j + 1], qv) * SimDen(rows[i + 1])

\* np.argsort(-sims): the orders of the rows in S by falling score.  The
\* default sort kind is not stable: rows of equal score come in any order.
RECURSIVE ArgSorts(_, _, _)
ArgSorts(rows, qv, S) ==
    IF S = {} THEN {<<>>}
    ELSE UNION {{<<i>> \o o : o \in ArgSorts(rows, qv, S \ {i})} :
                    i \in {m \in S : \A j \in S : ~SimGt(rows, qv, j, m)}}

\* TopK without the floor of 1
TopK_NoFloor(k, n) == Min(k, n)

\* line 164: topk = int(max(1, min(k, len(sims))))
TopK(k, n) == Max(1, Min(k, n))

\* line 165: argsort(-sims)[:topk]
TopIdxs(rows, qv, k) ==
    LET n == Len(rows)
    IN  {SubSeq(o, 1, Min(TopK(k, n), n)) : o \in ArgSorts(rows, qv, 0..(n - 1))}

\* IndexEmpty without the test of len(self._meta)
IndexEmpty_NoLenCheck(e, m) == ~e.some \/ ~m.some

\* line 159: the guard that returns []
IndexEmpty(e, m) == ~e.some \/ ~m.some \/ Len(m.rows) = 0

\* Materialize reading parts[chunk_id + 1]
RECURSIVE Materialize_OffByOne(_, _, _, _, _)
Materialize_OffByOne(idxs, metaRows, tree, c, res) ==
    IF idxs = <<>> THEN [out |-> "ok", res |-> res]
    ELSE IF Head(idxs) >= Len(metaRows) THEN [out |-> "raise_index", res |-> <<>>]
    ELSE LET m  == metaRows[Head(idxs) + 1]
             x  == extract_text(Kind(m.path), tree[m.path])
             ct == chunk_text(x.text, c.chunk_chars, c.chunk_overlap)
         IN  IF x.raises THEN [out |-> "raise_extract", res |-> <<>>]
             ELSE IF ~ct.halts THEN [out |-> "hang", res |-> <<>>]
             ELSE Materialize_OffByOne(Tail(idxs), metaRows, tree, c,
                    Append(res, [path |-> m.path, chunk_id |-> m.chunk_id,
                                 text |-> IF m.chunk_id + 1 < Len(ct.chunks)
                                          THEN ct.chunks[m.chunk_id + 2]
                                          ELSE <<>>]))

\* lines 169-183: the result of each index in turn.  The outcome is "ok" with
\* the results, "raise_index" (self._meta[i] out of range), "raise_extract"
\* or "hang" (chunk_text never returns).
RECURSIVE Materialize(_, _, _, _, _)
Materialize(idxs, metaRows, tree, c, res) ==
    IF idxs = <<>> THEN [out |-> "ok", res |-> res]
    ELSE IF Head(idxs) >= Len(metaRows) THEN [out |-> "raise_index", res |-> <<>>]
    ELSE LET m  == metaRows[Head(idxs) + 1]
             x  == extract_text(Kind(m.path), tree[m.path])
             ct == chunk_text(x.text, c.chunk_chars, c.chunk_overlap)
         IN  IF x.raises THEN [out |-> "raise_extract", res |-> <<>>]
             ELSE IF ~ct.halts THEN [out |-> "hang", res |-> <<>>]
             ELSE Materialize(Tail(idxs), metaRows, tree, c,
                    Append(res, [path |-> m.path, chunk_id |-> m.chunk_id,
                                 text |-> IF m.chunk_id < Len(ct.chunks)
                                          THEN ct.chunks[m.chunk_id + 1]
                                          ELSE <<>>]))

RetCallable(pc) ==
    pc \in {"idle", "done", "raised_embed", "raised_index", "raised_extract"}

\* line 158: a request thread enters retrieve(q, k)
RetrieveCall(q, k) ==
    /\ up
    /\ RetCallable(r_pc)
    /\ r_q' = q
    /\ r_k' = k
    /\ r_n' = 0
    /\ r_idxs' = <<>>
    /\ r_res' = <<>>
    /\ r_pc' = "check"
    /\ UNCHANGED <<ckvars, wvars, svars, envvars, idxvars, bvars>>

\* lines 159-160: the guard; return [] when it holds
RetrieveCheck ==
    /\ r_pc = "check"
    /\ r_pc' = IF IndexEmpty(_emb, _meta) THEN "done" ELSE "score"
    /\ r_q' = IF IndexEmpty(_emb, _meta) THEN <<>> ELSE r_q
    /\ UNCHANGED <<ckvars, wvars, svars, envvars, idxvars, bvars, r_k, r_n, r_idxs, r_res>>

\* lines 161-165: the query embedded, self._emb scored, the top k rows picked
RetrieveScore ==
    /\ r_pc = "score"
    /\ r_n' = Len(_emb.rows)
    /\ r_idxs' \in TopIdxs(_emb.rows, Normalize(Embed(r_q)), r_k)
    /\ r_q' = <<>>
    /\ r_pc' = "results"
    /\ UNCHANGED <<ckvars, wvars, svars, envvars, idxvars, bvars, r_k, r_res>>

\* line 161: the embedding client fails on the query
RetrieveEmbedFail ==
    /\ r_pc = "score"
    /\ r_q' = <<>>
    /\ r_pc' = "raised_embed"
    /\ UNCHANGED <<ckvars, wvars, svars, envvars, idxvars, bvars, r_k, r_n, r_idxs, r_res>>

\* lines 167-184: the results read from self._meta and the files
RetrieveResults ==
    /\ r_pc = "results"
    /\ LET m == Materialize(r_idxs, _meta.rows, fs, cfg, <<>>)
       IN  /\ r_res' = m.res
           /\ r_idxs' = <<>>
           /\ r_pc' = CASE m.out = "ok" -> "done"
                        [] m.out = "raise_index" -> "raised_index"
                        [] m.out = "raise_extract" -> "raised_extract"
                        [] OTHER -> "hung"
    /\ UNCHANGED <<ckvars, wvars, svars, envvars, idxvars, bvars, r_q, r_k, r_n>>

\* one step of a retrieve call
retrieve ==
    \/ \E q \in Queries, k \in 0..MaxK : RetrieveCall(q, k)
    \/ RetrieveCheck
    \/ RetrieveScore
    \/ RetrieveEmbedFail
    \/ RetrieveResults

---------------------------------------------------------------------------
(* The process and its environment *)

\* the chunking parameters of config.yaml: windows of one character, windows
\* of two, windows of two that overlap by one
Configs ==
    {[chunk_chars |-> 1, chunk_overlap |-> 0],
     [chunk_chars |-> 2, chunk_overlap |-> 0],
     [chunk_chars |-> 2, chunk_overlap |-> 1]}

BuildersIdle ==
    /\ b_pc = [t \in Builders |-> "idle"]
    /\ b_snap = [t \in Builders |-> NoSnap]
    /\ b_meta = [t \in Builders |-> <<>>]
    /\ b_chunks = [t \in Builders |-> <<>>]
    /\ b_E = [t \in Builders |-> <<>>]
    /\ b_ret = [t \in Builders |-> 0]

RetrieverIdle ==
    /\ r_pc = "idle" /\ r_q = <<>> /\ r_k = 0 /\ r_n = 0
    /\ r_idxs = <<>> /\ r_res = <<>>

\* RAG.__init__ (lines 88-90): both attributes None, then the index loaded
Start ==
    /\ ~up
    /\ up' = TRUE
    /\ LET l == LoadIndex(emb_file, meta_file)
       IN  _emb' = l.emb /\ _meta' = l.meta
    /\ UNCHANGED <<ckvars, wvars, svars, envvars, emb_file, meta_file, bvars, rvars>>

\* what a write cut short by the end of the process leaves of a file: the
\* file as it was, the file complete, or a partial file
CutShort(old, new) == {old, new, CorruptFile}

\* The process ends at any point (killed, power lost).  The memory is gone;
\* a file some worker is writing at that moment may be cut short.
Crash ==
    /\ up
    /\ up' = FALSE
    /\ _emb' = NoneVal /\ _meta' = NoneVal
    /\ emb_file' \in {emb_file}
          \cup UNION {CutShort(emb_file, SavedEmb(b_E[t])) :
                        t \in {u \in Builders : b_pc[u] = "save_emb"}}
          \cup UNION {CutShort(emb_file, SavedEmb(_emb.rows)) :
                        t \in {u \in Builders : b_pc[u] = "z_save"}}
    /\ meta_file' \in {meta_file}
          \cup UNION {CutShort(meta_file, SavedMeta(b_meta[t])) :
                        t \in {u \in Builders : b_pc[u] = "write_meta"}}
    /\ b_pc' = [t \in Builders |-> "idle"]
    /\ b_snap' = [t \in Builders |-> NoSnap]
    /\ b_meta' = [t \in Builders |-> <<>>]
    /\ b_chunks' = [t \in Builders |-> <<>>]
    /\ b_E' = [t \in Builders |-> <<>>]
    /\ b_ret' = [t \in Builders |-> 0]
    /\ r_pc' = "idle" /\ r_q' = <<>> /\ r_k' = 0 /\ r_n' = 0
    /\ r_idxs' = <<>> /\ r_res' = <<>>
    /\ UNCHANGED <<ckvars, wvars, svars, envvars>>

\* A file of kb_dir is written, replaced, made unreadable or deleted.
FsChange ==
    /\ fs_changes < MaxFsChanges
    /\ \E p \in PathSet, f \in FileStates :
          /\ f # fs[p]
          /\ fs' = [fs EXCEPT ![p] = f]
    /\ fs_changes' = fs_changes + 1
    /\ UNCHANGED <<ckvars, wvars, svars, cfg, idxvars, bvars, rvars>>

RagInit ==
    /\ cfg \in Configs
    /\ fs = [p \in PathSet |-> AbsentFile]
    /\ fs_changes = 0
    /\ up = FALSE
    /\ emb_file = NoFile /\ meta_file = NoFile
    /\ _emb = NoneVal /\ _meta = NoneVal
    /\ BuildersIdle
    /\ RetrieverIdle

\* the state of the process in the runs of chunk_text alone
RagIdle ==
    /\ cfg = [chunk_chars |-> 1, chunk_overlap |-> 0]
    /\ fs = [p \in PathSet |-> AbsentFile]
    /\ fs_changes = 0
    /\ up = FALSE
    /\ emb_file = NoFile /\ meta_file = NoFile
    /\ _emb = NoneVal /\ _meta = NoneVal
    /\ BuildersIdle
    /\ RetrieverIdle

---------------------------------------------------------------------------
(* FileSystemRAG (src/enhanced_buddy.py) *)

\* Paths under watch_dir, as their parts below watch_dir.  The files a user
\* writes: two documents and a file of a version-control directory.
UserPaths == {<<"notes.txt">>, <<"todo.txt">>, <<".git", "config">>}

\* The files the instance keeps under db_path: files.db (sqlite) and the
\* store of the vector collection.  db_path is watch_dir/.rag_db by default
\* ("default"), buddy_dir/rag with buddy_dir under watch_dir ("inside"), or a
\* directory that is not under watch_dir ("outside").
StoreFiles(db) ==
    CASE db = "default" -> {<<".rag_db", "files.db">>,
                            <<".rag_db", "vectors", "chroma.sqlite3">>}
      [] db = "inside"  -> {<<"buddy", "rag", "files.db">>,
                            <<"buddy", "rag", "vectors", "chroma.sqlite3">>}
      [] OTHER          -> {}

DbPaths == {"default", "inside", "outside"}

\* watch_dir.rglob("*"), in one of the orders the directory listing can give
WPathSeq ==
    <<<<"notes.txt">>,
      <<".git", "config">>,
      <<".rag_db", "files.db">>,
      <<".rag_db", "vectors", "chroma.sqlite3">>,
      <<"buddy", "rag", "files.db">>,
      <<"buddy", "rag", "vectors", "chroma.sqlite3">>,
      <<"todo.txt">>>>

WPaths == {WPathSeq[i] : i \in 1..Len(WPathSeq)}

\* A file: its bytes ("" is the file of 0 bytes, "HUGE" one of more than
\* 50 MB) and its modification time.
WAbsent == [st |-> "absent", content |-> "", mtime |-> 0]
WFile(c, m) == [st |-> "file", content |-> c, mtime |-> m]
Contents == {"", "c1", "c2", "HUGE"}

\* stat().st_size, as a class
Size(f) ==
    CASE f.content = "" -> "empty"
      [] f.content = "HUGE" -> "huge"
      [] OTHER -> "small"

\* file_path.name
Name(p) == p[Len(p)]

\* file_path.suffix.lower()
Suffix(p) ==
    CASE Name(p) \in {"notes.txt", "todo.txt"} -> ".txt"
      [] Name(p) = "files.db" -> ".db"
      [] Name(p) = "chroma.sqlite3" -> ".sqlite3"
      [] OTHER -> ""

\* line 344: any(pattern in str(file_path) for pattern in skip_patterns), a
\* substring test: the parts used here that contain '.tmp', '.cache', '.git',
\* '__pycache__', '.DS_Store' or '.db'
HasSkipPattern(p) == \E i \in 1..Len(p) : p[i] \in {".git", "files.db"}

\* line 346: any(dir_name in file_path.parts for dir_name in skip_dirs)
HasSkipDir(p) ==
    \E i \in 1..Len(p) : p[i] \in {"node_modules", ".venv", "venv", ".git", ".rag_db"}

\* _should_index_file (lines 338-354)
_should_index_file(p, f) ==
    /\ ~HasSkipPattern(p)
    /\ ~HasSkipDir(p)
    /\ f.st = "file"
    /\ Size(f) # "huge"

\* _get_file_hash (lines 396-405): the digest of the bytes
_get_file_hash(f) == f.content

\* _extract_content_preview (lines 407-421): the head of a text file, a line
\* of name, type and size for any other file
_extract_content_preview(p, f) ==
    IF Suffix(p) = ".txt" THEN f.content ELSE "File: name type size"

\* A row of the table files.  access_count is 0 by default and last_accessed
\* NULL (0 here; 1 once record_interaction has set it).
NoRow ==
    [some |-> FALSE, hash |-> "", modified |-> 0, size |-> "empty",
     preview |-> "", access_count |-> 0, last_accessed |-> 0]
NoDoc == [some |-> FALSE, document |-> "", modified |-> 0]

\* the call of index_file a thread is in: the path and the file as the call
\* read it (lines 359-362)
NoJob == [some |-> FALSE, path |-> <<>>, f |-> WAbsent]
Job(p, f) == [some |-> TRUE, path |-> p, f |-> f]

\* index_file (lines 364-391) with what the call read of the file: INSERT OR
\* REPLACE puts a new row in the place of the old one (the columns it does
\* not name get their defaults), and the document is upserted when the vector
\* store is on and the preview not empty
IndexFile(p, f, table, coll) ==
    LET preview == _extract_content_preview(p, f)
    IN  [table |-> [table EXCEPT ![p] =
               [some |-> TRUE, hash |-> _get_file_hash(f),
                modified |-> f.mtime, size |-> Size(f), preview |-> preview,
                access_count |-> 0, last_accessed |-> 0]],
         coll |-> IF w_vec /\ preview # ""
                  THEN [coll EXCEPT ![p] =
                         [some |-> TRUE, document |-> preview,
                          modified |-> f.mtime]]
                  ELSE coll]

\* lines 333-334, 532-534, 773-775 and 359-362: if the path is a file and
\* _should_index_file accepts it, index_file is entered and reads the file
ReadIfWanted(p) ==
    IF w_fs[p].st = "file" /\ _should_index_file(p, w_fs[p])
    THEN Job(p, w_fs[p])
    ELSE NoJob

(* search *)

WQueries == {"c1", "txt"}

\* s LIKE %q%, for the previews and names used here
Contains(s, q) ==
    \/ s = q
    \/ q = "txt" /\ s \in {"notes.txt", "todo.txt"}

\* the sequences of the elements of S, each once
RECURSIVE Orders(_)
Orders(S) ==
    IF S = {} THEN {<<>>}
    ELSE UNION {{<<x>> \o o : o \in Orders(S \ {x})} : x \in S}

\* lines 449-467: the n nearest documents of the collection, nearest first
\* (any order here), or nothing when the store is off, empty or fails
VectorResults(limit) ==
    LET ids == {p \in WPaths : w_coll[p].some}
    IN  {<<>>} \cup
        (IF w_vec
         THEN {SubSeq(o, 1, Min(limit, Len(o))) : o \in Orders(ids)}
         ELSE {})

\* row p comes before row q under ORDER BY access_count DESC, modified DESC
SqlBefore(p, q) ==
    \/ w_table[p].access_count > w_table[q].access_count
    \/ /\ w_table[p].access_count = w_table[q].access_count
       /\ w_table[p].modified >= w_table[q].modified

\* lines 470-486: the rows whose preview or name contains the query, in the
\* order of the statement, the first limit of them
SqlResults(q, limit) ==
    LET hits == {p \in WPaths :
                    /\ w_table[p].some
                    /\ Contains(w_table[p].preview, q) \/ Contains(Name(p), q)}
    IN  {SubSeq(o, 1, Min(limit, Len(o))) :
            o \in {r \in Orders(hits) :
                     \A i, j \in 1..Len(r) : i < j => SqlBefore(r[i], r[j])}}

\* search(query, limit) (lines 444-488): the result lists the call can
\* return, each result with its path and its source
search(q, limit) ==
    {[i \in 1..Len(v) |-> [path |-> v[i], source |-> "vector"]] :
        v \in VectorResults(limit) \ {<<>>}}
    \cup
    {[i \in 1..Len(r) |-> [path |-> r[i], source |-> "sql"]] :
        r \in SqlResults(q, limit)}

\* record_interaction (lines 511-527) on the table files: the UPDATE of the
\* row of file_path, if there is one
record_interaction(path, table) ==
    IF path \in WPaths /\ table[path].some
    THEN [table EXCEPT ![path].access_count = @ + 1,
                       ![path].last_accessed = 1]
    ELSE table

\* EnhancedBitBuddy.ask (lines 893-945): search with limit 5, answer, and
\* record the interaction on the first result
Ask ==
    /\ \A p \in WPaths : w_table[p].access_count < MaxAccess
    /\ \E q \in WQueries : \E res \in search(q, MaxLimit) :
          /\ res # <<>>
          /\ w_table' = record_interaction(res[1].path, w_table)
    /\ UNCHANGED <<w_db, w_vec, w_fs, w_clock, w_events, w_coll, w_todo,
                   w_wjob, w_sjob>>
    /\ UNCHANGED <<ckvars, envvars, idxvars, bvars, rvars, svars>>

(* the user, the observer thread and the scans *)

\* The user writes a file under watch_dir; the observer queues on_created or
\* on_modified.
WWrite ==
    /\ w_clock < MaxWrites
    /\ \E p \in UserPaths, c \in Contents :
          /\ w_fs[p].st = "absent" \/ w_fs[p].content # c
          /\ w_fs' = [w_fs EXCEPT ![p] = WFile(c, w_clock + 1)]
          /\ w_events' = Append(w_events,
                [kind |-> IF w_fs[p].st = "absent" THEN "created" ELSE "modified",
                 path |-> p])
    /\ w_clock' = w_clock + 1
    /\ UNCHANGED <<w_db, w_vec, w_table, w_coll, w_todo, w_wjob, w_sjob>>
    /\ UNCHANGED <<ckvars, envvars, idxvars, bvars, rvars, svars>>

\* The user touches a file: a new mtime, the same bytes; on_modified queued.
WTouch ==
    /\ w_clock < MaxWrites
    /\ \E p \in UserPaths :
          /\ w_fs[p].st = "file"
          /\ w_fs' = [w_fs EXCEPT ![p].mtime = w_clock + 1]
          /\ w_events' = Append(w_events, [kind |-> "modified", path |-> p])
    /\ w_clock' = w_clock + 1
    /\ UNCHANGED <<w_db, w_vec, w_table, w_coll, w_todo, w_wjob, w_sjob>>
    /\ UNCHANGED <<ckvars, envvars, idxvars, bvars, rvars, svars>>

\* The user deletes a file; the observer queues on_deleted.
WDelete ==
    /\ w_clock < MaxWrites
    /\ \E p \in UserPaths :
          /\ w_fs[p].st = "file"
          /\ w_fs' = [w_fs EXCEPT ![p] = WAbsent]
          /\ w_events' = Append(w_events, [kind |-> "deleted", path |-> p])
    /\ w_clock' = w_clock + 1
    /\ UNCHANGED <<w_db, w_vec, w_table, w_coll, w_todo, w_wjob, w_sjob>>
    /\ UNCHANGED <<ckvars, envvars, idxvars, bvars, rvars, svars>>

\* The observer thread dispatches the next event (lines 313-336): FileHandler
\* overrides on_modified and on_created, both call _process_file_change; any
\* other event goes to the handler of the base class, which does nothing.
WatchDispatch ==
    /\ w_events # <<>>
    /\ ~w_wjob.some
    /\ LET e == Head(w_events)
       IN  w_wjob' = IF e.kind \in {"created", "modified"}
                     THEN ReadIfWanted(e.path)
                     ELSE NoJob
    /\ w_events' = Tail(w_events)
    /\ UNCHANGED <<w_db, w_vec, w_fs, w_clock, w_table, w_coll, w_todo, w_sjob>>
    /\ UNCHANGED <<ckvars, envvars, idxvars, bvars, rvars, svars>>

\* the index_file call of the observer thread writes what it read
WatchCommit ==
    /\ w_wjob.some
    /\ LET r == IndexFile(w_wjob.path, w_wjob.f, w_table, w_coll)
       IN  w_table' = r.table /\ w_coll' = r.coll
    /\ w_wjob' = NoJob
    /\ UNCHANGED <<w_db, w_vec, w_fs, w_clock, w_events, w_todo, w_sjob>>
    /\ UNCHANGED <<ckvars, envvars, idxvars, bvars, rvars, svars>>

\* index_files / _initial_scan (lines 529-536, 766-787): a scan starts on the
\* paths rglob finds
ScanStart ==
    /\ w_todo = <<>>
    /\ ~w_sjob.some
    /\ w_todo' = SelectSeq(WPathSeq, LAMBDA p : w_fs[p].st = "file")
    /\ w_todo' # <<>>
    /\ UNCHANGED <<w_db, w_vec, w_fs, w_clock, w_events, w_table, w_coll,
                   w_wjob, w_sjob>>
    /\ UNCHANGED <<ckvars, envvars, idxvars, bvars, rvars, svars>>

\* the scan comes to its next path
ScanStep ==
    /\ w_todo # <<>>
    /\ ~w_sjob.some
    /\ w_sjob' = ReadIfWanted(Head(w_todo))
    /\ w_todo' = Tail(w_todo)
    /\ UNCHANGED <<w_db, w_vec, w_fs, w_clock, w_events, w_table, w_coll, w_wjob>>
    /\ UNCHANGED <<ckvars, envvars, idxvars, bvars, rvars, svars>>

\* the index_file call of the scan writes what it read
ScanCommit ==
    /\ w_sjob.some
    /\ LET r == IndexFile(w_sjob.path, w_sjob.f, w_table, w_coll)
       IN  w_table' = r.table /\ w_coll' = r.coll
    /\ w_sjob' = NoJob
    /\ UNCHANGED <<w_db, w_vec, w_fs, w_clock, w_events, w_todo, w_wjob>>
    /\ UNCHANGED <<ckvars, envvars, idxvars, bvars, rvars, svars>>

\* FileSystemRAG.__init__ (lines 252-264): db_path made, the databases
\* opened (their files are on disk from here on), the observer started
WatchInit ==
    /\ w_db \in DbPaths
    /\ w_vec \in BOOLEAN
    /\ w_fs = [p \in WPaths |-> IF p \in StoreFiles(w_db) THEN WFile("c1", 0) ELSE WAbsent]
    /\ w_clock = 0
    /\ w_events = <<>>
    /\ w_table = [p \in WPaths |-> NoRow]
    /\ w_coll = [p \in WPaths |-> NoDoc]
    /\ w_todo = <<>>
    /\ w_wjob = NoJob
    /\ w_sjob = NoJob

\* no FileSystemRAG instance
WatchIdle ==
    /\ w_db = "outside"
    /\ w_vec = FALSE
    /\ w_fs = [p \in WPaths |-> WAbsent]
    /\ w_clock = 0
    /\ w_events = <<>>
    /\ w_table = [p \in WPaths |-> NoRow]
    /\ w_coll = [p \in WPaths |-> NoDoc]
    /\ w_todo = <<>>
    /\ w_wjob = NoJob
    /\ w_sjob = NoJob

(* The HTTP server (src/app/server.py) *)

\* The requests in progress: the threads of the server's thread pool (/chat
\* and /health are sync handlers) and the event loop (/reindex).
Threads == {1, 2}
Kinds == {"chat", "reindex", "health"}

\* An index, on disk or loaded in a RAG instance: the build that made it and
\* the number of its rows.
NoIndex == [some |-> FALSE, ver |-> 0, rows |-> 0]
Index(v, n) == [some |-> TRUE, ver |-> v, rows |-> n]

\* the number of chunks a kb_dir can give
RowCounts == {0, 1}

\* the bodies of the responses
NoResponse == [pending |-> TRUE]
Unavailable ==
    [status_code |-> 503,
     detail |-> "RAG service not available; initialization failed"]
Healthy == [status |-> "healthy", rag_initialized |-> TRUE, ready |-> TRUE]
Unhealthy(e) ==
    [status |-> "unhealthy", rag_initialized |-> FALSE, ready |-> FALSE,
     error |-> IF e = "none" THEN "RAG initialization failed" ELSE e]

\* RAG.retrieve on an index (src/app/rag.py line 159): nothing when no index
\* is loaded or it has no rows, else results from the loaded index
Context(idx) ==
    IF ~idx.some \/ idx.rows = 0 THEN [n |-> 0, ver |-> 0] ELSE [n |-> 1, ver |-> idx.ver]

\* a step of thread t to pc, no response yet
Goto(t, pc) == s_pc' = [s_pc EXCEPT ![t] = pc]

\* the handler of thread t returns r
Return(t, r) ==
    /\ s_pc' = [s_pc EXCEPT ![t] = "done"]
    /\ s_resp' = [s_resp EXCEPT ![t] = r]

\* A request arrives.  /reindex is an async handler: its _ensure_rag runs on
\* the event loop, one at a time.
Request(t) ==
    /\ s_pc[t] = "idle"
    /\ \E kind \in Kinds :
          /\ kind = "reindex"
                => \A u \in Threads :
                      s_kind[u] = "reindex" => s_pc[u] \in {"idle", "building", "done"}
          /\ s_kind' = [s_kind EXCEPT ![t] = kind]
          /\ Goto(t, IF kind = "health" THEN "health" ELSE "ensure")
    /\ UNCHANGED <<s_rag, rag_init_error, s_ok, s_made, s_inst, s_disk, s_loc, s_resp>>
    /\ UNCHANGED <<ckvars, envvars, idxvars, bvars, rvars, wvars>>

\* health, line 127: if rag is not None, healthy; else _ensure_rag()
HealthCheck(t) ==
    /\ s_pc[t] = "health"
    /\ IF s_rag # 0
       THEN Return(t, Healthy)
       ELSE Goto(t, "ensure") /\ UNCHANGED s_resp
    /\ UNCHANGED <<s_rag, rag_init_error, s_ok, s_made, s_inst, s_disk, s_kind, s_loc>>
    /\ UNCHANGED <<ckvars, envvars, idxvars, bvars, rvars, wvars>>

\* _ensure_rag, lines 31-32: if rag is not None: return True
EnsureTest(t) ==
    /\ s_pc[t] = "ensure"
    /\ Goto(t, IF s_rag # 0 THEN "ok" ELSE "construct")
    /\ UNCHANGED <<s_rag, rag_init_error, s_ok, s_made, s_inst, s_disk, s_kind,
                   s_loc, s_resp>>
    /\ UNCHANGED <<ckvars, envvars, idxvars, bvars, rvars, wvars>>

\* _ensure_rag, line 34, the right-hand side: RAG(cfg) makes a new instance,
\* which loads the index that is on disk (rag.py lines 77-90), or raises
Construct(t) ==
    /\ s_pc[t] = "construct"
    /\ IF s_ok
       THEN /\ s_made < MaxInst
            /\ s_made' = s_made + 1
            /\ s_inst' = [s_inst EXCEPT ![s_made + 1] = s_disk]
            /\ s_loc' = [s_loc EXCEPT ![t] = s_made + 1]
            /\ Goto(t, "assign")
       ELSE /\ Goto(t, "except")
            /\ UNCHANGED <<s_made, s_inst, s_loc>>
    /\ UNCHANGED <<s_rag, rag_init_error, s_ok, s_disk, s_kind, s_resp>>
    /\ UNCHANGED <<ckvars, envvars, idxvars, bvars, rvars, wvars>>

\* _ensure_rag, line 34, the store: rag = <the new instance>
Assign(t) ==
    /\ s_pc[t] = "assign"
    /\ s_rag' = s_loc[t]
    /\ Goto(t, "clear")
    /\ UNCHANGED <<rag_init_error, s_ok, s_made, s_inst, s_disk, s_kind, s_loc, s_resp>>
    /\ UNCHANGED <<ckvars, envvars, idxvars, bvars, rvars, wvars>>

\* _ensure_rag, lines 35-36: rag_init_error = None; return True
Clear(t) ==
    /\ s_pc[t] = "clear"
    /\ rag_init_error' = "none"
    /\ Goto(t, "ok")
    /\ UNCHANGED <<s_rag, s_ok, s_made, s_inst, s_disk, s_kind, s_loc, s_resp>>
    /\ UNCHANGED <<ckvars, envvars, idxvars, bvars, rvars, wvars>>

\* Except without the assignment of line 38
Except_NoError(t) ==
    /\ s_pc[t] = "except"
    /\ Goto(t, "failed")
    /\ UNCHANGED <<rag_init_error, s_rag, s_ok, s_made, s_inst, s_disk, s_kind,
                   s_loc, s_resp>>
    /\ UNCHANGED <<ckvars, envvars, idxvars, bvars, rvars, wvars>>

\* _ensure_rag, lines 37-40: rag_init_error = str(e); return False
Except(t) ==
    /\ s_pc[t] = "except"
    /\ rag_init_error' = "embedder failed"
    /\ Goto(t, "failed")
    /\ UNCHANGED <<s_rag, s_ok, s_made, s_inst, s_disk, s_kind, s_loc, s_resp>>
    /\ UNCHANGED <<ckvars, envvars, idxvars, bvars, rvars, wvars>>

\* _ensure_rag returned False: HTTPException 503 from reindex (lines 50-54)
\* and chat (lines 64-68), the unhealthy body from health (lines 140-145)
Refuse(t) ==
    /\ s_pc[t] = "failed"
    /\ Return(t, IF s_kind[t] = "health"
                 THEN Unhealthy(rag_init_error)
                 ELSE Unavailable)
    /\ UNCHANGED <<s_rag, rag_init_error, s_ok, s_made, s_inst, s_disk, s_kind, s_loc>>
    /\ UNCHANGED <<ckvars, envvars, idxvars, bvars, rvars, wvars>>

\* _ensure_rag returned True.  chat: rag.retrieve on the instance the global
\* names now (line 70), and the answer.  reindex: rag.build_index of the
\* instance the global names now goes to the executor (line 58).  health:
\* lines 134-139.
Serve(t) ==
    /\ s_pc[t] = "ok"
    /\ CASE s_kind[t] = "chat" ->
              /\ Return(t, [answer |-> "text", context |-> Context(s_inst[s_rag])])
              /\ UNCHANGED s_loc
         [] s_kind[t] = "reindex" ->
              /\ Goto(t, "building")
              /\ s_loc' = [s_loc EXCEPT ![t] = s_rag]
              /\ UNCHANGED s_resp
         [] OTHER ->
              /\ Return(t, Healthy)
              /\ UNCHANGED s_loc
    /\ UNCHANGED <<s_rag, rag_init_error, s_ok, s_made, s_inst, s_disk, s_kind>>
    /\ UNCHANGED <<ckvars, envvars, idxvars, bvars, rvars, wvars>>

\* reindex, lines 58-59: build_index on the executor writes the index files
\* and the fields of its instance; the response carries the number of chunks
Reindex(t) ==
    /\ s_pc[t] = "building"
    /\ s_disk.ver < MaxBuilds
    /\ \E n \in RowCounts :
          /\ s_disk' = Index(s_disk.ver + 1, n)
          /\ s_inst' = [s_inst EXCEPT ![s_loc[t]] = Index(s_disk.ver + 1, n)]
          /\ Return(t, [status |-> "ok", chunks |-> n])
    /\ UNCHANGED <<s_rag, rag_init_error, s_ok, s_made, s_kind, s_loc>>
    /\ UNCHANGED <<ckvars, envvars, idxvars, bvars, rvars, wvars>>

\* the response is sent; the thread is free for the next request
Respond(t) ==
    /\ s_pc[t] = "done"
    /\ s_pc' = [s_pc EXCEPT ![t] = "idle"]
    /\ s_resp' = [s_resp EXCEPT ![t] = NoResponse]
    /\ s_loc' = [s_loc EXCEPT ![t] = 0]
    /\ UNCHANGED <<s_rag, rag_init_error, s_ok, s_made, s_inst, s_disk, s_kind>>
    /\ UNCHANGED <<ckvars, envvars, idxvars, bvars, rvars, wvars>>

\* the embedding model becomes available, or stops being so
EmbedderChange ==
    /\ s_ok' = ~s_ok
    /\ UNCHANGED <<s_rag, rag_init_error, s_made, s_inst, s_disk, s_kind, s_pc,
                   s_loc, s_resp>>
    /\ UNCHANGED <<ckvars, envvars, idxvars, bvars, rvars, wvars>>

\* the module is imported (lines 13-22): rag and rag_init_error are None; the
\* index directory may hold the index of an earlier run
ServerInit ==
    /\ s_rag = 0
    /\ rag_init_error = "none"
    /\ s_ok \in BOOLEAN
    /\ s_made = 0
    /\ s_inst = [i \in 1..MaxInst |-> NoIndex]
    /\ s_disk \in {NoIndex} \cup {Index(0, n) : n \in RowCounts}
    /\ s_kind = [t \in Threads |-> "health"]
    /\ s_pc = [t \in Threads |-> "idle"]
    /\ s_loc = [t \in Threads |-> 0]
    /\ s_resp = [t \in Threads |-> NoResponse]

\* no server
ServerIdle ==
    /\ s_rag = 0
    /\ rag_init_error = "none"
    /\ s_ok = FALSE
    /\ s_made = 0
    /\ s_inst = [i \in 1..MaxInst |-> NoIndex]
    /\ s_disk = NoIndex
    /\ s_kind = [t \in Threads |-> "health"]
    /\ s_pc = [t \in Threads |-> "idle"]
    /\ s_loc = [t \in Threads |-> 0]
    /\ s_resp = [t \in Threads |-> NoResponse]

---------------------------------------------------------------------------
(* Specifications *)

\* The server: /reindex calls on the two executor workers, /chat calls on a
\* request thread, the file tree changing, the process ending and restarting.
Init == ChunkIdle /\ RagInit /\ WatchIdle /\ ServerIdle

Next ==
    \/ Start
    \/ Crash
    \/ FsChange
    \/ \E t \in Builders : build_index(t)
    \/ retrieve

Spec == Init /\ [][Next]_vars

\* The same with a single index writer: build_index calls on worker 1 only.
NextSeq ==
    \/ Start
    \/ Crash
    \/ FsChange
    \/ build_index(1)
    \/ retrieve

SpecSeq == Init /\ [][NextSeq]_vars

\* The two executor workers with no reader: overlapping /reindex calls.
NextPar ==
    \/ Start
    \/ Crash
    \/ FsChange
    \/ \E t \in Builders : build_index(t)

SpecPar == Init /\ [][NextPar]_vars

\* Two /reindex calls in a row on a tree that no longer changes: the first on
\* worker 1, the second on worker 2 once the first has returned.
NextTwice ==
    \/ Start
    \/ (\A t \in Builders : b_pc[t] = "idle") /\ FsChange
    \/ b_pc[2] = "idle" /\ build_index(1)
    \/ b_pc[1] = "done" /\ build_index(2)

SpecTwice == Init /\ [][NextTwice]_vars

\* A /reindex call on worker 1 and, once it has returned, another on worker 2,
\* on a kb_dir that holds files from the start and changes at any time.
RagInitTree ==
    /\ cfg \in Configs
    /\ fs \in [PathSet -> FileStates]
    /\ fs_changes = 0
    /\ up = FALSE
    /\ emb_file = NoFile /\ meta_file = NoFile
    /\ _emb = NoneVal /\ _meta = NoneVal
    /\ BuildersIdle
    /\ RetrieverIdle

InitRebuild == ChunkIdle /\ RagInitTree /\ WatchIdle /\ ServerIdle

NextRebuild ==
    \/ Start
    \/ FsChange
    \/ b_pc[2] = "idle" /\ build_index(1)
    \/ b_pc[1] = "done" /\ build_index(2)

SpecRebuild == InitRebuild /\ [][NextRebuild]_vars

\* /reindex and /chat on a kb_dir that holds files from the start and does
\* not change: every file is as the last build_index read it.
NextStable ==
    \/ Start
    \/ build_index(1)
    \/ retrieve

SpecStable == InitRebuild /\ [][NextStable]_vars

\* chunk_text alone, on every text and every pair of parameters in the bounds
InitChunk == ChunkInit /\ RagIdle /\ WatchIdle /\ ServerIdle

NextChunk == ChunkIterate \/ ChunkExit \/ ChunkReturn

SpecChunk == InitChunk /\ [][NextChunk]_vars

\* One FileSystemRAG instance: the user changing files under watch_dir, the
\* observer thread dispatching events, scans of the whole tree.
InitWatch == ChunkIdle /\ RagIdle /\ WatchInit /\ ServerIdle

NextWatch ==
    \/ WWrite
    \/ WTouch
    \/ WDelete
    \/ WatchDispatch
    \/ WatchCommit
    \/ ScanStart
    \/ ScanStep
    \/ ScanCommit
    \/ Ask

SpecWatch == InitWatch /\ [][NextWatch]_vars

\* index_files with no file changing while it runs: the user writes only
\* when no scan is running; the observer thread runs all along.
ScanRunning == w_todo # <<>> \/ w_sjob.some

NextScan ==
    \/ ~ScanRunning /\ WWrite
    \/ ~ScanRunning /\ WTouch
    \/ ~ScanRunning /\ WDelete
    \/ WatchDispatch
    \/ WatchCommit
    \/ ScanStart
    \/ ScanStep
    \/ ScanCommit

SpecScan == InitWatch /\ [][NextScan]_vars

\* The server alone: requests on its threads, any interleaving.
InitServer == ChunkIdle /\ RagIdle /\ WatchIdle /\ ServerInit

NextServer ==
    \/ EmbedderChange
    \/ \E t \in Threads :
          \/ Request(t)
          \/ HealthCheck(t)
          \/ EnsureTest(t)
          \/ Construct(t)
          \/ Assign(t)
          \/ Clear(t)
          \/ Except(t)
          \/ Refuse(t)
          \/ Serve(t)
          \/ Reindex(t)
          \/ Respond(t)

SpecServer == InitServer /\ [][NextServer]_vars

---------------------------------------------------------------------------
(* Properties *)

\* the chunk a metadata entry (path, chunk_id) describes in a tree, as a list
\* of one chunk, or the empty list when there is no such chunk
DescribedChunk(tree, m, c) ==
    LET x  == extract_text(Kind(m.path), tree[m.path])
        ct == chunk_text(x.text, c.chunk_chars, c.chunk_overlap)
    IN  IF ~x.raises /\ ct.halts /\ m.chunk_id < Len(ct.chunks)
        THEN <<ct.chunks[m.chunk_id + 1]>>
        ELSE <<>>

\* rows and metadata of equal length, row i the embedding of the chunk that
\* entry i describes in the tree
AlignedIndex(rows, metaRows, tree, c) ==
    /\ Len(rows) = Len(metaRows)
    /\ \A i \in 1..Len(rows) :
          LET d == DescribedChunk(tree, metaRows[i], c)
          IN  /\ d # <<>>
              /\ rows[i] = Normalize(Embed(d[1]))
              /\ metaRows[i].chars = Len(d[1])

\* a build_index call is under way on a worker
Building(pc) == ~Callable(pc)

(* C1: when a build_index call that ran with no other writer returns, the
   matrix and the metadata in memory and on disk are the same aligned index:
   equal row counts, equal to the returned chunk count, and row i is the
   embedding of the chunk that entry i (path, chunk_id) describes in the tree
   the call read. *)
C1_BuildLeavesAlignedIndex ==
    [][(b_pc[1] # "done" /\ b_pc'[1] = "done") =>
          /\ _emb'.some /\ _meta'.some
          /\ emb_file'.st = "ok" /\ meta_file'.st = "ok"
          /\ emb_file'.rows = _emb'.rows
          /\ meta_file'.rows = _meta'.rows
          /\ b_ret'[1] = Len(_meta'.rows)
          /\ AlignedIndex(_emb'.rows, _meta'.rows, b_snap[1], cfg)]_vars

\* a call has returned 2 chunks and the index of 2 rows is in place
C1_Witness ==
    /\ up /\ b_pc[1] = "done" /\ b_ret[1] = 2
    /\ Len(_emb.rows) = 2 /\ Len(_meta.rows) = 2
    /\ emb_file = File(_emb.rows) /\ meta_file = File(_meta.rows)

(* C2: a retrieve call that runs beside a build_index works on one index
   version: when it reads self._meta to build its results, the metadata has
   as many entries as the matrix it scored had rows. *)
C2_RetrieveSeesOneVersion ==
    [][(r_pc = "results" /\ r_pc' \notin {"results", "idle"}) =>
          r_n = Len(_meta.rows)]_vars

(* C3: build_index publishes the persisted index atomically: whenever the
   process has ended, the files a later load reads are a complete index: one of
   them absent (no index), or both whole with equal row counts. *)
C3_PersistedIndexNeverTorn ==
    ~up =>
       \/ emb_file.st = "absent" \/ meta_file.st = "absent"
       \/ /\ emb_file.st = "ok" /\ meta_file.st = "ok"
          /\ Len(emb_file.rows) = Len(meta_file.rows)

(* C4: chunk_text terminates for every text, chunk_chars > 0 and
   0 <= overlap < chunk_chars.  The next window start is a function of the
   start alone, so a call that terminates has no iteration that stays in the
   loop at the start it came from. *)
C4_ChunkTextTerminates ==
    [][(ck_ov < ck_cc /\ ck_pc = "while" /\ ck_pc' = "while") =>
          ck_i' # ck_i]_vars

(* C5: the writers of one index are serialized by a writer lock: two
   build_index calls on the same instance never overlap. *)
C5_SingleWriter ==
    ~(Building(b_pc[1]) /\ Building(b_pc[2]))

(* C6: when the embedding client fails during build_index, the exception
   reaches the caller and the call has committed nothing: no step of a call up
   to and including the failure changes the persisted files or _emb / _meta. *)
C6_EmbedFailureCommitsNothing ==
    [][\A t \in Builders :
          (b_pc'[t] # b_pc[t] /\ b_pc'[t] \in {"embed", "raised_embed"}) =>
             UNCHANGED <<emb_file, meta_file, _emb, _meta>>]_vars

\* a call has failed in the embedding client and the index built before it is
\* still in place, in memory and on disk
C6_Witness ==
    /\ up /\ b_pc[1] = "raised_embed"
    /\ _emb.some /\ _meta.some /\ Len(_meta.rows) >= 1
    /\ emb_file = File(_emb.rows) /\ meta_file = File(_meta.rows)

(* C7: a persisted index that is corrupt or whose matrix row count differs
   from its metadata entry count is loaded as the empty state. *)
C7_BadIndexLoadsEmpty ==
    [][(~up /\ up' /\
          \/ emb_file.st = "corrupt" \/ meta_file.st = "corrupt"
          \/ /\ emb_file.st = "ok" /\ meta_file.st = "ok"
             /\ Len(emb_file.rows) # Len(meta_file.rows))
        => (~_emb'.some /\ ~_meta'.some)]_vars

(* C8: extract_text never raises, so no build_index call is aborted by the
   failure of one file. *)
C8_ExtractNeverAbortsBuild ==
    \A t \in Builders : b_pc[t] # "raised_extract"

\* the index is absent, or is a zero-row index
AbsentOrZeroRows(e, m) ==
    ~e.some \/ ~m.some \/ (Len(e.rows) = 0 /\ Len(m.rows) = 0)

(* C9: retrieve returns the empty sequence, and no error, whenever the index
   is absent or has zero rows, for every query and every k. *)
C9_EmptyIndexRetrievesNothing ==
    [][(r_pc = "check" /\ r_pc' # "check" /\ up' /\ AbsentOrZeroRows(_emb, _meta))
          => (r_pc' = "done" /\ r_res' = <<>>)]_vars

\* retrieve has returned nothing from a zero-row index that is present
C9_Witness ==
    /\ up /\ r_pc = "done" /\ r_res = <<>> /\ r_k = MaxK
    /\ _emb.some /\ _meta.some /\ Len(_emb.rows) = 0 /\ Len(_meta.rows) = 0

(* C10: on a matrix of N >= 1 rows retrieve(q, k) picks, and on return has
   produced, exactly min(max(k, 1), N) results. *)
C10_ResultCount ==
    /\ (r_pc = "results" /\ r_n >= 1) => Len(r_idxs) = Min(Max(r_k, 1), r_n)
    /\ (r_pc = "done" /\ r_n >= 1) => Len(r_res) = Min(Max(r_k, 1), r_n)

\* retrieve was asked for more results than the matrix has rows and returned
\* one per row
C10_Witness ==
    /\ r_pc = "done" /\ r_n >= 1 /\ r_k > r_n /\ Len(r_res) = r_n

\* sims[i] = sims[j] (0-based rows of the matrix)
SimEq(rows, qv, i, j) == ~SimGt(rows, qv, i, j) /\ ~SimGt(rows, qv, j, i)

\* row i comes before row j in the order (score falling, then index rising)
RanksBefore(rows, qv, i, j) ==
    SimGt(rows, qv, i, j) \/ (SimEq(rows, qv, i, j) /\ i < j)

\* idxs are the first rows of the matrix in that order
RankedTopK(rows, qv, idxs) ==
    LET n   == Len(rows)
        in_ == {idxs[a] : a \in 1..Len(idxs)}
    IN  /\ \A a, b \in 1..Len(idxs) :
              a < b => RanksBefore(rows, qv, idxs[a], idxs[b])
        /\ \A a \in 1..Len(idxs) : \A j \in (0..(n - 1)) \ in_ :
              RanksBefore(rows, qv, idxs[a], j)

(* C11: the rows retrieve picks are the first rows of the matrix under the
   total order (score falling, then row index rising): no picked row scores
   lower than a later one or than a row left out, and rows of equal score come
   in rising row index. *)
C11_RankingIsTotalOrder ==
    [][(r_pc = "score" /\ r_pc' = "results")
          => RankedTopK(_emb.rows, Normalize(Embed(r_q)), r_idxs')]_vars

(* C12: build_index is idempotent on an unchanged tree: every step of a second
   call that follows a returned call leaves embeddings.npy and meta.jsonl as
   the first call left them (same rows, same entries, same order), and the
   second call returns what the first returned. *)
C12_BuildIdempotent ==
    [][(b_pc[1] = "done" /\ b_pc'[2] # b_pc[2])
          => /\ emb_file' = emb_file
             /\ meta_file' = meta_file
             /\ (b_pc'[2] = "done" => b_ret'[2] = b_ret[1])]_vars

\* a second call has returned after a first one, both with two chunks
C12_Witness ==
    /\ b_pc[1] = "done" /\ b_pc[2] = "done"
    /\ b_ret[1] = 2 /\ b_ret[2] = 2
    /\ emb_file.st = "ok" /\ Len(emb_file.rows) = 2
    /\ meta_file.st = "ok" /\ Len(meta_file.rows) = 2

\* every file the enumeration finds extracts to empty text
NoText(tree) ==
    \A p \in PathSet :
        tree[p].st # "absent"
            => LET x == extract_text(Kind(p), tree[p])
               IN  ~x.raises /\ x.text = <<>>

(* C13: a build_index call on a tree with no file, or only files that extract
   to empty text, returns 0 and leaves a zero-row matrix and an empty metadata
   list in memory and on disk; a load of these files gives the same zero-row
   index, on which the guard of retrieve returns []. *)
C13_EmptyCorpusZeroRowIndex ==
    [][\A t \in Builders :
          (Building(b_pc[t]) /\ b_pc'[t] = "done" /\ NoText(b_snap[t]))
          => /\ b_ret'[t] = 0
             /\ _emb' = Some(<<>>) /\ _meta' = Some(<<>>)
             /\ emb_file' = File(<<>>) /\ meta_file' = File(<<>>)
             /\ LET l == LoadIndex(emb_file', meta_file')
                IN  /\ l.emb = Some(<<>>) /\ l.meta = Some(<<>>)
                    /\ IndexEmpty(l.emb, l.meta)]_vars

\* a call has returned 0 on a tree that holds a file without text, and the
\* zero-row index is in memory and on disk
C13_Witness ==
    /\ up /\ b_pc[1] = "done" /\ b_ret[1] = 0
    /\ \E p \in PathSet : fs[p].st # "absent"
    /\ NoText(fs)
    /\ _emb = Some(<<>>) /\ _meta = Some(<<>>)
    /\ emb_file = File(<<>>) /\ meta_file = File(<<>>)

\* the first chunk followed by every later chunk less its first ov characters
RECURSIVE Reconstruct(_, _)
Reconstruct(chunks, ov) ==
    IF chunks = <<>> THEN <<>>
    ELSE IF Len(chunks) = 1 THEN chunks[1]
    ELSE LET last == chunks[Len(chunks)]
         IN  Reconstruct(SubSeq(chunks, 1, Len(chunks) - 1), ov)
                \o SubSeq(last, Min(ov, Len(last)) + 1, Len(last))

(* C14: for 0 <= overlap < chunk_chars the chunks chunk_text returns
   reconstruct the text exactly: the first chunk followed by every later
   chunk less its leading overlap characters is the text. *)
C14_ChunksReconstructText ==
    (ck_pc = "done" /\ ck_ov < ck_cc) => Reconstruct(ck_out, ck_ov) = ck_text

\* the window starts 0, step, 2*step, ... below n, with step = cc - ov
WindowStarts(n, cc, ov) == {s \in 0..(n - 1) : s % (cc - ov) = 0}

\* the windows text[s : s + cc] at these starts, in order, each stripped
RECURSIVE WindowsFrom(_, _, _, _)
WindowsFrom(text, cc, ov, s) ==
    IF s >= Len(text) THEN <<>>
    ELSE <<Strip(Slice(text, s, Min(s + cc, Len(text))))>>
            \o WindowsFrom(text, cc, ov, s + (cc - ov))

Windows(text, cc, ov) == NonEmpty(WindowsFrom(text, cc, ov, 0))

HelloWorldAB == <<"H", "e", "l", "l", "o", "W", "o", "r", "l", "d", "A", "B">>

(* C15: for 0 <= overlap < chunk_chars chunk_text returns, in order, the
   windows text[s : s + chunk_chars] at s = 0, step, 2*step, ... with step =
   chunk_chars - overlap, stripped, the empty ones dropped: the loop appends
   no more windows than there are starts, the list returned is the list of
   these windows, and chunk_text("HelloWorldAB", 5, 0) is
   ["Hello", "World", "AB"]. *)
C15_ChunksAreWindows ==
    /\ ck_ov < ck_cc =>
          /\ Len(ck_chunks) <= Cardinality(WindowStarts(Len(ck_text), ck_cc, ck_ov))
          /\ ck_pc = "done" => ck_out = Windows(ck_text, ck_cc, ck_ov)
    /\ chunk_text(HelloWorldAB, 5, 0) =
          [halts |-> TRUE,
           chunks |-> <<SubSeq(HelloWorldAB, 1, 5), SubSeq(HelloWorldAB, 6, 10),
                        SubSeq(HelloWorldAB, 11, 12)>>]

(* C16: when overlap >= chunk_chars the advance is clamped to at least 1:
   every loop iteration moves the window start strictly forward. *)
C16_AdvanceClamped ==
    [][(ck_ov >= ck_cc /\ ck_pc = "while" /\ ck_chunks' # ck_chunks)
          => ck_i' > ck_i]_vars

(* C17: a file whose content hash equals its last-indexed hash is skipped,
   even if its mtime changed: no step of the watcher or of a scan rewrites
   the columns index_file writes of the row, or the document, of such a
   file. *)
C17_SameHashIsSkipped ==
    [][\A p \in WPaths :
          (/\ w_fs' = w_fs
           /\ w_fs[p].st = "file"
           /\ w_table[p].some
           /\ w_table[p].hash = _get_file_hash(w_fs[p]))
          => /\ w_table'[p].hash = w_table[p].hash
             /\ w_table'[p].modified = w_table[p].modified
             /\ w_table'[p].size = w_table[p].size
             /\ w_table'[p].preview = w_table[p].preview
             /\ w_coll'[p] = w_coll[p]]_vars

(* C18: a file that had an entry and was deleted from watch_dir is purged by
   the incremental path: once the observer has dispatched every event, and no
   scan is running, neither the table nor the collection holds an entry for a
   path that is not there, and search does not return it. *)
C18_DeletedFilePurged ==
    (w_events = <<>> /\ w_todo = <<>> /\ ~w_wjob.some /\ ~w_sjob.some)
        => \A p \in WPaths :
              w_fs[p].st = "absent"
                  => /\ ~w_table[p].some /\ ~w_coll[p].some
                     /\ \A q \in WQueries : \A res \in search(q, MaxLimit) :
                           \A i \in 1..Len(res) : res[i].path # p

(* C19: a build_index call that returns has dropped the deleted files: every
   entry of the metadata, in memory and on disk, names a file that was there
   when the call enumerated the tree. *)
C19_BuildDropsDeletedFiles ==
    [][\A t \in Builders :
          (Building(b_pc[t]) /\ b_pc'[t] = "done")
          => /\ _meta'.some /\ meta_file'.st = "ok"
             /\ \A i \in 1..Len(_meta'.rows) :
                   b_snap[t][_meta'.rows[i].path].st # "absent"
             /\ \A i \in 1..Len(meta_file'.rows) :
                   b_snap[t][meta_file'.rows[i].path].st # "absent"]_vars

\* a first call indexed two files, one was deleted, and a second call has
\* returned: one entry, of the file that is left
C19_Witness ==
    /\ b_pc[1] = "done" /\ b_ret[1] = 2
    /\ b_pc[2] = "done" /\ b_ret[2] = 1
    /\ \E p, q \in PathSet :
          /\ fs[p].st = "absent" /\ fs[q].st = "ok"
          /\ _meta = Some(<<[path |-> q, chunk_id |-> 0, chars |-> 1]>>)
          /\ meta_file = File(_meta.rows)

\* the path lies under a segment that is never a candidate: a directory of a
\* version-control system, a cache, or db_path wherever it is
UnderExcludedSegment(p) ==
    \/ \E i \in 1..Len(p) : p[i] \in {".git", "__pycache__", ".cache"}
    \/ p \in StoreFiles(w_db)

(* C20: no file under an excluded path segment (version control, caches, the
   storage directory db_path wherever it is configured) and no file above the
   maximum size is ever in the table or the collection. *)
C20_ExcludedNeverIndexed ==
    \A p \in WPaths :
        (w_table[p].some \/ w_coll[p].some)
            => (~UnderExcludedSegment(p) /\ w_table[p].size # "huge")

(* C21: retrieve returns a well-formed result and propagates no error when a
   file the index names was modified, shrunk or deleted after the build: no
   call ends with the exception of extract_text. *)
C21_RetrieveToleratesFileChange ==
    r_pc # "raised_extract"

\* the chunk ordinals of each file are 0, 1, 2, ... in the order of the entries
DenseOrdinals(metaRows) ==
    \A i \in 1..Len(metaRows) :
        metaRows[i].chunk_id =
            Cardinality({j \in 1..(i - 1) : metaRows[j].path = metaRows[i].path})

(* C26: for files unchanged since the last build_index, the text retrieve
   materializes for a result (path, chunk_id) is the chunk whose embedding is
   the matrix row of that result, its length is the chars of the entry, and
   the ordinals of each file are dense, 0..n-1. *)
C26_MaterializedTextIsEmbeddedChunk ==
    [][(r_pc = "results" /\ r_pc' = "done")
          => /\ Len(r_res') = Len(r_idxs)
             /\ DenseOrdinals(_meta.rows)
             /\ \A j \in 1..Len(r_idxs) :
                   LET i == r_idxs[j] + 1
                   IN  /\ r_res'[j].path = _meta.rows[i].path
                       /\ r_res'[j].chunk_id = _meta.rows[i].chunk_id
                       /\ r_res'[j].text # <<>>
                       /\ _emb.rows[i] = Normalize(Embed(r_res'[j].text))
                       /\ _meta.rows[i].chars = Len(r_res'[j].text)]_vars

\* retrieve has returned the second chunk of a file with its text
C26_Witness ==
    /\ r_pc = "done" /\ Len(r_res) = 2
    /\ \E j \in 1..2 : r_res[j].chunk_id = 1 /\ r_res[j].text # <<>>

(* C27: when two overlapping build_index calls have both returned, the two
   files on disk have equal row counts and come from one build, and _emb and
   _meta in memory are aligned. *)
C27_OverlappingBuildsAligned ==
    (up /\ b_pc[1] = "done" /\ b_pc[2] = "done")
        => /\ emb_file.st = "ok" /\ meta_file.st = "ok"
           /\ Len(emb_file.rows) = Len(meta_file.rows)
           /\ _emb.some /\ _meta.some
           /\ Len(_emb.rows) = Len(_meta.rows)


(* C22: when the vector store gives nothing, search answers from the table
   files: at most limit results, each a row whose preview or name contains
   the query, the most recently modified first. *)
C22_FallbackRankedByRecency ==
    \A q \in WQueries : \A limit \in 1..MaxLimit :
        \A res \in search(q, limit) :
            (res = <<>> \/ res[1].source = "sql")
            => /\ Len(res) <= limit
               /\ \A i \in 1..Len(res) :
                     /\ w_table[res[i].path].some
                     /\ \/ Contains(w_table[res[i].path].preview, q)
                        \/ Contains(Name(res[i].path), q)
               /\ \A i, j \in 1..Len(res) :
                     i < j => w_table[res[i].path].modified
                                 >= w_table[res[j].path].modified


(* C23: when index_files returns, no file having changed while it ran, the
   table files holds a row for every regular file under watch_dir that
   passes _should_index_file, with the current size and content hash of the
   file. *)
C23_ScanIndexesEveryFile ==
    [][(ScanRunning /\ ~ScanRunning')
          => \A p \in WPaths :
                (w_fs[p].st = "file" /\ _should_index_file(p, w_fs[p]))
                => /\ w_table'[p].some
                   /\ w_table'[p].hash = _get_file_hash(w_fs[p])
                   /\ w_table'[p].size = Size(w_fs[p])]_vars


\* no event waits for the observer thread, no scan runs and no call of
\* index_file is in flight
WatchQuiet == w_events = <<>> /\ w_todo = <<>> /\ ~w_wjob.some /\ ~w_sjob.some

(* C28: under any interleaving of the index_file calls of the observer
   thread and of a scan, once every pending call has finished the row of a
   file holds the hash, the size and the preview of what the file now
   contains. *)
C28_RowHoldsFinalContent ==
    WatchQuiet
        => \A p \in WPaths :
              (/\ w_fs[p].st = "file"
               /\ _should_index_file(p, w_fs[p])
               /\ w_table[p].some)
              => /\ w_table[p].hash = _get_file_hash(w_fs[p])
                 /\ w_table[p].size = Size(w_fs[p])
                 /\ w_table[p].preview = _extract_content_preview(p, w_fs[p])

(* C29: index_file on a file that has a row leaves access_count and
   last_accessed of the row as they were. *)
C29_ReindexKeepsAccessStats ==
    [][\A p \in WPaths :
          (/\ w_table[p].some
           /\ \/ w_wjob.some /\ ~w_wjob'.some /\ w_wjob.path = p
              \/ w_sjob.some /\ ~w_sjob'.some /\ w_sjob.path = p)
          => /\ w_table'[p].access_count = w_table[p].access_count
             /\ w_table'[p].last_accessed = w_table[p].last_accessed]_vars


\* thread t takes a step of its handler
Steps(t) == s_pc'[t] # s_pc[t]

\* the body r is the 503 of chat and reindex
Is503(r) == "status_code" \in DOMAIN r /\ r.status_code = 503

\* the body r is the healthy body of health
IsHealthy(r) == "status" \in DOMAIN r /\ r.status = "healthy"

(* C24: the body health returns reports whether an index is present and the
   number of its rows: index_present is true exactly when the instance has
   an index loaded, and row_count is the number of its rows (true and 0 after
   the rebuild of an empty directory). *)
C24_HealthReportsIndex ==
    \A t \in Threads :
        (s_kind[t] = "health" /\ s_pc[t] = "done" /\ s_rag # 0)
        => /\ "index_present" \in DOMAIN s_resp[t]
           /\ "row_count" \in DOMAIN s_resp[t]
           /\ s_resp[t].index_present = s_inst[s_rag].some
           /\ s_resp[t].row_count = s_inst[s_rag].rows

(* C25: when the construction of the RAG fails, rag stays None and
   rag_init_error is set; chat and reindex then answer 503 and neither
   retrieve nor build_index runs; a request that finds rag None tries the
   construction again whatever rag_init_error holds; when the construction
   succeeds rag is set and rag_init_error cleared, and a health request
   that finds rag set answers healthy. *)
C25_InitFailureIs503AndRetried ==
    [][\A t \in Threads :
          /\ (s_pc[t] = "except" /\ Steps(t))
                => /\ s_rag' = s_rag
                   /\ rag_init_error' # "none"
                   /\ s_pc'[t] = "failed"
          /\ (s_pc[t] = "failed" /\ Steps(t))
                => /\ s_pc'[t] = "done"
                   /\ s_kind[t] \in {"chat", "reindex"} => Is503(s_resp'[t])
                   /\ s_kind[t] = "health" => ~IsHealthy(s_resp'[t])
                   /\ UNCHANGED <<s_inst, s_disk, s_rag>>
          /\ (s_pc[t] = "ensure" /\ s_rag = 0 /\ Steps(t))
                => s_pc'[t] = "construct"
          /\ (s_pc[t] = "construct" /\ Steps(t))
                => (s_pc'[t] = "except" <=> ~s_ok)
          /\ (s_pc[t] = "clear" /\ Steps(t))
                => (s_rag' # 0 /\ rag_init_error' = "none")
          /\ (s_kind[t] = "health" /\ s_pc[t] \in {"health", "ok"} /\ s_rag # 0
                  /\ Steps(t))
                => (s_pc'[t] = "done" /\ IsHealthy(s_resp'[t]))]_vars

\* a request was refused with 503 and stored the error; the next one
\* constructed the RAG, cleared the error, and health answered healthy
C25_Witness ==
    \E t, u \in Threads :
        /\ s_pc[t] = "done" /\ Is503(s_resp[t])
        /\ s_kind[u] = "health" /\ s_pc[u] = "done" /\ IsHealthy(s_resp[u])
        /\ s_rag # 0
        /\ rag_init_error = "none"

(* C30: the global rag is assigned at most once: a single RAG instance is
   ever constructed, a rag that is not None is never replaced, and chat
   retrieves from the index the last reindex built. *)
C30_RagAssignedOnce ==
    [][/\ s_made' <= 1
       /\ s_rag # 0 => s_rag' = s_rag
       /\ \A t \in Threads :
             (s_kind[t] = "chat" /\ s_pc[t] = "ok" /\ Steps(t))
             => s_resp'[t].context = Context(s_disk)]_vars

==========================================================================
